---- MODULE Spec2Model ----
\* The snake simulation engine of hjkl-snake (src/src/lib.rs): GameState and
\* its operations with_rng/reset, queue_direction and tick, with the helpers
\* tick calls (next_head_position, out_of_bounds, wrap, collides_with_body,
\* spawn_food).  The snake is a sequence of points, head first.
EXTENDS Integers, Sequences, FiniteSets

\* ---------------------------------------------------------------- bounds
\* Boards of 1..MaxWidth by 1..MaxHeight cells and at most MaxCells cells,
\* initial_len in 0..MaxInitLen, and at most MaxDraws calls of random_range in
\* one behaviour.
MaxWidth == 3
MaxHeight == 2
MaxCells == 6
MaxInitLen == 3
MaxDraws == 18
\* Rasters handed to render_braille: up to MaxRasterWidth wide and
\* MaxRasterHeight high; every pattern of cells for rasters of at most
\* MaxFullCells cells, and for the larger ones all cells off or all on but for
\* up to two of them.
MaxRasterWidth == 4
MaxRasterHeight == 8
MaxFullCells == 8
\* The run loop is followed until the score is MaxScore.
MaxScore == 72
\* In the run loop the head is followed in MaxRunRows rows of the board, the
\* draws of spawn_food name cells of MaxDrawColumns columns and MaxDrawRows
\* rows, spawn_food is followed for MaxSpawnAttempts attempts, and the first
\* MaxFrames frames are followed.
MaxRunRows == 1
MaxDrawColumns == 5
MaxDrawRows == 1
MaxSpawnAttempts == 1
MaxFrames == 2

\* ---------------------------------------------------------------- values
Up == "Up"
Down == "Down"
Left == "Left"
Right == "Right"
Direction == {Up, Down, Left, Right}
None == "None"

Running == "Running"
Dead == "Dead"
GameStatus == {Running, Dead}

Point(px, py) == [x |-> px, y |-> py]

\* Direction::dx_dy
dx_dy(d) ==
    CASE d = Up -> <<0, -1>>
      [] d = Down -> <<0, 1>>
      [] d = Left -> <<-1, 0>>
      [] d = Right -> <<1, 0>>

\* Direction::is_opposite
is_opposite(a, b) ==
    \/ a = Up /\ b = Down
    \/ a = Down /\ b = Up
    \/ a = Right /\ b = Left
    \/ a = Left /\ b = Right

\* GameConfig (braille_friendly is not read by the engine)
GameConfig ==
    {c \in [width : 1..MaxWidth, height : 1..MaxHeight, wrap_edges : BOOLEAN,
            initial_len : 0..MaxInitLen] : c.width * c.height <= MaxCells}

Max(a, b) == IF a >= b THEN a ELSE b

\* ---------------------------------------------------------------- state
VARIABLES cfg, snake, dir, pending_dir, food, rng, status, score, last,
          raster, braille, tick_rate, frames

\* cfg, snake, dir, pending_dir, food, rng, status, score are the fields of
\* GameState; rng is the stream position of the generator, counted in calls of
\* random_range.  last is the operation that produced the state: its name, the
\* direction it was given (queue_direction) or the pending direction it took
\* (tick) and, for tick, the TickResult it returned.
\* raster is the Raster2D handed to render_braille and braille what it
\* returned: nothing yet, a panic, or the characters of the string.
\* tick_rate is the tick interval of the run loop in milliseconds, a u64, or
\* the panic of the arithmetic that computes it.  frames is the number of
\* frames the run loop has drawn.
vars == <<cfg, snake, dir, pending_dir, food, rng, status, score, last,
          raster, braille, tick_rate, frames>>

game == <<cfg, snake, dir, pending_dir, food, rng, status, score>>

\* The variables of the renderer and of the run loop, which no operation of
\* the engine touches
render == <<raster, braille, tick_rate, frames>>

SegSet(s) == {s[i] : i \in 1..Len(s)}

\* GameState::head
head(s) == s[1]

\* VecDeque::push_front and pop_back
push_front(s, p) == <<p>> \o s
pop_back(s) == SubSeq(s, 1, Len(s) - 1)

\* ---------------------------------------------------------------- helpers
\* GameState::next_head_position
next_head_position(s, d) ==
    Point(head(s).x + dx_dy(d)[1], head(s).y + dx_dy(d)[2])

\* out_of_bounds with the upper limits off by one (> for >=)
OutOfBoundsOffByOne(c, p) ==
    p.x < 0 \/ p.x > c.width \/ p.y < 0 \/ p.y > c.height

\* GameState::out_of_bounds
out_of_bounds(c, p) ==
    p.x < 0 \/ p.x >= c.width \/ p.y < 0 \/ p.y >= c.height

\* wrap with the low side off by one (width for width - 1)
WrapOffByOne(c, p) ==
    Point(IF p.x < 0 THEN c.width ELSE IF p.x >= c.width THEN 0 ELSE p.x,
          IF p.y < 0 THEN c.height ELSE IF p.y >= c.height THEN 0 ELSE p.y)

\* GameState::wrap
wrap(c, p) ==
    Point(IF p.x < 0 THEN c.width - 1 ELSE IF p.x >= c.width THEN 0 ELSE p.x,
          IF p.y < 0 THEN c.height - 1 ELSE IF p.y >= c.height THEN 0 ELSE p.y)

\* collides_with_body ignoring the last two segments (take(len - 2))
CollidesSkipsTwo(s, p, tail_will_move_off) ==
    IF tail_will_move_off /\ Len(s) # 0
    THEN \E i \in 1..(Len(s) - 2) : s[i] = p
    ELSE \E i \in 1..Len(s) : s[i] = p

\* collides_with_body testing the whole body whatever the flag says
CollidesCountsTail(s, p, tail_will_move_off) ==
    \E i \in 1..Len(s) : s[i] = p

\* GameState::collides_with_body
collides_with_body(s, p, tail_will_move_off) ==
    IF tail_will_move_off /\ Len(s) # 0
    THEN \E i \in 1..(Len(s) - 1) : s[i] = p
    ELSE \E i \in 1..Len(s) : s[i] = p

\* max_attempts of spawn_food: width * height * 2, at least 8
max_attempts(c) == Max(c.width * c.height * 2, 8)

\* The cells random_range(0..width) x random_range(0..height) can name.
Cells(c) == {Point(px, py) : px \in 0..(c.width - 1), py \in 0..(c.height - 1)}

\* spawn_food rejecting only the cells of the food, not those of the snake
SpawnFoodIgnoresSnake(c, s, f, r) ==
    LET occupied == {p \in Cells(c) : p \in f}
        free == Cells(c) \ occupied
        n == max_attempts(c)
        tries == IF occupied = {} THEN {1} ELSE 1..n
        placed == {[food |-> f \cup {p}, rng |-> r + 2 * k] : p \in free, k \in tries}
        gave_up == IF occupied = {} THEN {} ELSE {[food |-> f, rng |-> r + 2 * n]}
    IN {o \in placed \cup gave_up : o.rng <= MaxDraws}

\* GameState::spawn_food: the (food, rng) pairs it can end with.  Each attempt
\* draws x and y; an attempt on a cell of the snake or of the food is rejected;
\* the first accepted cell is inserted after k attempts, or all max_attempts
\* attempts are rejected and the food is left as it was.
spawn_food(c, s, f, r) ==
    LET occupied == {p \in Cells(c) : p \in SegSet(s) \/ p \in f}
        free == Cells(c) \ occupied
        n == max_attempts(c)
        tries == IF occupied = {} THEN {1} ELSE 1..n
        placed == {[food |-> f \cup {p}, rng |-> r + 2 * k] : p \in free, k \in tries}
        gave_up == IF occupied = {} THEN {} ELSE {[food |-> f, rng |-> r + 2 * n]}
    IN {o \in placed \cup gave_up : o.rng <= MaxDraws}

\* commit_direction without the test for a reversal
CommitAnyDirection(d, pending) ==
    IF pending # None THEN pending ELSE d

\* The pending direction as tick applies it: taken unless it is None or the
\* opposite of the committed direction.
commit_direction(d, pending) ==
    IF pending # None /\ ~is_opposite(pending, d) THEN pending ELSE d

\* The snake reset lays out: max(initial_len, 1) segments leftwards of the centre.
initial_snake(c) ==
    [i \in 1..Max(c.initial_len, 1) |-> Point(c.width \div 2 - (i - 1), c.height \div 2)]

NoResult == [ate_food |-> FALSE, status |-> None, score |-> 0]

Last(op, taken, res) == [op |-> op, taken |-> taken, res |-> res]

\* ---------------------------------------------------------------- operations
\* reset without the clearing of the pending direction
ResetKeepsPending(c, r, op) ==
    \E o \in spawn_food(c, initial_snake(c), {}, r) :
        /\ cfg' = c
        /\ status' = Running
        /\ score' = 0
        /\ snake' = initial_snake(c)
        /\ food' = o.food
        /\ dir' = Right
        /\ pending_dir' = pending_dir
        /\ rng' = o.rng
        /\ last' = Last(op, None, NoResult)
        /\ UNCHANGED render

\* GameState::reset on configuration c with the generator at r
ResetTo(c, r, op) ==
    \E o \in spawn_food(c, initial_snake(c), {}, r) :
        /\ cfg' = c
        /\ status' = Running
        /\ score' = 0
        /\ snake' = initial_snake(c)
        /\ food' = o.food
        /\ dir' = Right
        /\ pending_dir' = None
        /\ rng' = o.rng
        /\ last' = Last(op, None, NoResult)
        /\ UNCHANGED render

\* ------------------------------------------------- u64 of the run loop
\* A u64 is four limbs of 16 bits, the most significant first.
Limb == 2 ^ 16

\* n as u64, for 0 <= n < 2^31 (`as u64` of a u32 in that range)
u64(n) == <<0, 0, n \div Limb, n % Limb>>

\* a < b for u64
u64_lt(a, b) ==
    \E i \in 1..4 : a[i] < b[i] /\ \A j \in 1..(i - 1) : a[j] = b[j]

\* std::cmp::max on u64
u64_max(a, b) == IF u64_lt(a, b) THEN b ELSE a

\* a - b modulo 2^64, limb by limb with borrow
u64_wrapping_sub(a, b) ==
    LET d4 == a[4] - b[4]
        c4 == IF d4 < 0 THEN 1 ELSE 0
        d3 == a[3] - b[3] - c4
        c3 == IF d3 < 0 THEN 1 ELSE 0
        d2 == a[2] - b[2] - c3
        c2 == IF d2 < 0 THEN 1 ELSE 0
        d1 == a[1] - b[1] - c2
        c1 == IF d1 < 0 THEN 1 ELSE 0
    IN <<d1 + c1 * Limb, d2 + c2 * Limb, d3 + c3 * Limb, d4 + c4 * Limb>>

\* The operator - on u64: when a < b a build with overflow checks panics
\* ("attempt to subtract with overflow") and a build without them wraps
u64_sub(a, b) ==
    IF u64_lt(a, b)
    THEN {[state |-> "panic", value |-> a],
          [state |-> "ok", value |-> u64_wrapping_sub(a, b)]}
    ELSE {[state |-> "ok", value |-> u64_wrapping_sub(a, b)]}

\* INIT_TICK_MILLIS
INIT_TICK_MILLIS == 70

\* Duration::from_millis(INIT_TICK_MILLIS), the tick interval run begins with
initial_tick_rate == [state |-> "ok", millis |-> u64(INIT_TICK_MILLIS)]

\* GameState::with_rng: the fields as constructed, then reset
Init ==
    \E c \in GameConfig :
        \E o \in spawn_food(c, initial_snake(c), {}, 0) :
            /\ cfg = c
            /\ status = Running
            /\ score = 0
            /\ snake = initial_snake(c)
            /\ food = o.food
            /\ dir = Right
            /\ pending_dir = None
            /\ rng = o.rng
            /\ last = Last("create", None, NoResult)
            /\ raster = [width |-> 0, height |-> 0, cells |-> <<>>]
            /\ braille = [state |-> "none", text |-> <<>>]
            /\ tick_rate = initial_tick_rate
            /\ frames = 0

\* GameState::reset
Reset == ResetTo(cfg, rng, "reset")

\* queue_direction keeping an earlier request that was not applied yet
QueueDirectionKeepsFirst(d) ==
    /\ pending_dir' = IF pending_dir = None THEN d ELSE pending_dir
    /\ last' = Last("queue_direction", d, NoResult)
    /\ UNCHANGED render
    /\ UNCHANGED <<cfg, snake, dir, food, rng, status, score>>

\* GameState::queue_direction
QueueDirection(d) ==
    /\ pending_dir' = d
    /\ last' = Last("queue_direction", d, NoResult)
    /\ UNCHANGED render
    /\ UNCHANGED <<cfg, snake, dir, food, rng, status, score>>

TickResult(ate, st, sc) == [ate_food |-> ate, status |-> st, score |-> sc]

\* TickDead with the pending direction taken before the test for Dead
TickDeadTakesPending ==
    /\ status = Dead
    /\ pending_dir' = None
    /\ last' = Last("tick", pending_dir, TickResult(FALSE, status, score))
    /\ UNCHANGED render
    /\ UNCHANGED <<cfg, snake, dir, food, rng, status, score>>

\* tick, lines 183-189: a dead game returns at once
TickDead ==
    /\ status = Dead
    /\ last' = Last("tick", None, TickResult(FALSE, status, score))
    /\ UNCHANGED render
    /\ UNCHANGED game

\* TickWall with the wrap flag not consulted
TickWallIgnoresWrap ==
    /\ status # Dead
    /\ LET d == commit_direction(dir, pending_dir)
           next_head == next_head_position(snake, d)
       IN /\ out_of_bounds(cfg, next_head)
          /\ dir' = d
          /\ pending_dir' = None
          /\ status' = Dead
          /\ last' = Last("tick", pending_dir, TickResult(FALSE, Dead, score))
          /\ UNCHANGED render
          /\ UNCHANGED <<cfg, snake, food, rng, score>>

\* tick, lines 191-207: the pending direction is applied, and the candidate
\* head is out of bounds on a board that does not wrap
TickWall ==
    /\ status # Dead
    /\ LET d == commit_direction(dir, pending_dir)
           next_head == next_head_position(snake, d)
       IN /\ ~cfg.wrap_edges /\ out_of_bounds(cfg, next_head)
          /\ dir' = d
          /\ pending_dir' = None
          /\ status' = Dead
          /\ last' = Last("tick", pending_dir, TickResult(FALSE, Dead, score))
          /\ UNCHANGED render
          /\ UNCHANGED <<cfg, snake, food, rng, score>>

\* The candidate head of tick after lines 198-213
candidate(c, s, d) ==
    IF c.wrap_edges THEN wrap(c, next_head_position(s, d)) ELSE next_head_position(s, d)

\* TickCollide with the collision fatal
TickCollideKills ==
    /\ status # Dead
    /\ LET d == commit_direction(dir, pending_dir)
           next_head == candidate(cfg, snake, d)
           is_eating == next_head \in food
       IN /\ ~(~cfg.wrap_edges /\ out_of_bounds(cfg, next_head_position(snake, d)))
          /\ collides_with_body(snake, next_head, ~is_eating)
          /\ dir' = d
          /\ pending_dir' = None
          /\ status' = Dead
          /\ last' = Last("tick", pending_dir, TickResult(FALSE, Dead, score))
          /\ UNCHANGED render
          /\ UNCHANGED <<cfg, snake, food, rng, score>>

\* TickCollide with the direction of the rejected step not committed
TickCollideKeepsDirection ==
    /\ status # Dead
    /\ LET d == commit_direction(dir, pending_dir)
           next_head == candidate(cfg, snake, d)
           is_eating == next_head \in food
       IN /\ ~(~cfg.wrap_edges /\ out_of_bounds(cfg, next_head_position(snake, d)))
          /\ collides_with_body(snake, next_head, ~is_eating)
          /\ dir' = dir
          /\ pending_dir' = None
          /\ status' = Running
          /\ last' = Last("tick", pending_dir, TickResult(FALSE, Running, score))
          /\ UNCHANGED render
          /\ UNCHANGED <<cfg, snake, food, rng, score>>

\* tick, lines 191-225: the candidate head collides with the body
TickCollide ==
    /\ status # Dead
    /\ LET d == commit_direction(dir, pending_dir)
           next_head == candidate(cfg, snake, d)
           is_eating == next_head \in food
       IN /\ ~(~cfg.wrap_edges /\ out_of_bounds(cfg, next_head_position(snake, d)))
          /\ collides_with_body(snake, next_head, ~is_eating)
          /\ dir' = d
          /\ pending_dir' = None
          /\ status' = Running
          /\ last' = Last("tick", pending_dir, TickResult(FALSE, Running, score))
          /\ UNCHANGED render
          /\ UNCHANGED <<cfg, snake, food, rng, score>>

\* TickEat with the tail popped although the snake ate
TickEatPopsTail ==
    /\ status # Dead
    /\ LET d == commit_direction(dir, pending_dir)
           next_head == candidate(cfg, snake, d)
           is_eating == next_head \in food
       IN /\ ~(~cfg.wrap_edges /\ out_of_bounds(cfg, next_head_position(snake, d)))
          /\ ~collides_with_body(snake, next_head, ~is_eating)
          /\ is_eating
          /\ \E o \in spawn_food(cfg, pop_back(push_front(snake, next_head)),
                                 food \ {next_head}, rng) :
                /\ food' = o.food
                /\ rng' = o.rng
          /\ dir' = d
          /\ pending_dir' = None
          /\ snake' = pop_back(push_front(snake, next_head))
          /\ score' = score + 1
          /\ last' = Last("tick", pending_dir, TickResult(TRUE, status, score + 1))
          /\ UNCHANGED render
          /\ UNCHANGED <<cfg, status>>

\* TickEat with the eaten food left in the food set
TickEatKeepsFood ==
    /\ status # Dead
    /\ LET d == commit_direction(dir, pending_dir)
           next_head == candidate(cfg, snake, d)
           is_eating == next_head \in food
       IN /\ ~(~cfg.wrap_edges /\ out_of_bounds(cfg, next_head_position(snake, d)))
          /\ ~collides_with_body(snake, next_head, ~is_eating)
          /\ is_eating
          /\ \E o \in spawn_food(cfg, push_front(snake, next_head),
                                 food, rng) :
                /\ food' = o.food
                /\ rng' = o.rng
          /\ dir' = d
          /\ pending_dir' = None
          /\ snake' = push_front(snake, next_head)
          /\ score' = score + 1
          /\ last' = Last("tick", pending_dir, TickResult(TRUE, status, score + 1))
          /\ UNCHANGED render
          /\ UNCHANGED <<cfg, status>>

\* tick, lines 191-234: the head moves onto food
TickEat ==
    /\ status # Dead
    /\ LET d == commit_direction(dir, pending_dir)
           next_head == candidate(cfg, snake, d)
           is_eating == next_head \in food
       IN /\ ~(~cfg.wrap_edges /\ out_of_bounds(cfg, next_head_position(snake, d)))
          /\ ~collides_with_body(snake, next_head, ~is_eating)
          /\ is_eating
          /\ \E o \in spawn_food(cfg, push_front(snake, next_head),
                                 food \ {next_head}, rng) :
                /\ food' = o.food
                /\ rng' = o.rng
          /\ dir' = d
          /\ pending_dir' = None
          /\ snake' = push_front(snake, next_head)
          /\ score' = score + 1
          /\ last' = Last("tick", pending_dir, TickResult(TRUE, status, score + 1))
          /\ UNCHANGED render
          /\ UNCHANGED <<cfg, status>>

\* TickMove spawning food again when the board holds none
TickMoveRespawns ==
    /\ status # Dead
    /\ LET d == commit_direction(dir, pending_dir)
           next_head == candidate(cfg, snake, d)
           is_eating == next_head \in food
       IN /\ ~(~cfg.wrap_edges /\ out_of_bounds(cfg, next_head_position(snake, d)))
          /\ ~collides_with_body(snake, next_head, ~is_eating)
          /\ ~is_eating
          /\ IF food = {}
             THEN \E o \in spawn_food(cfg, pop_back(push_front(snake, next_head)),
                                      food, rng) :
                     /\ food' = o.food
                     /\ rng' = o.rng
             ELSE UNCHANGED <<food, rng>>
          /\ dir' = d
          /\ pending_dir' = None
          /\ snake' = pop_back(push_front(snake, next_head))
          /\ last' = Last("tick", pending_dir, TickResult(FALSE, status, score))
          /\ UNCHANGED render
          /\ UNCHANGED <<cfg, status, score>>

\* tick, lines 191-238: the head moves and the tail is popped
TickMove ==
    /\ status # Dead
    /\ LET d == commit_direction(dir, pending_dir)
           next_head == candidate(cfg, snake, d)
           is_eating == next_head \in food
       IN /\ ~(~cfg.wrap_edges /\ out_of_bounds(cfg, next_head_position(snake, d)))
          /\ ~collides_with_body(snake, next_head, ~is_eating)
          /\ ~is_eating
          /\ dir' = d
          /\ pending_dir' = None
          /\ snake' = pop_back(push_front(snake, next_head))
          /\ last' = Last("tick", pending_dir, TickResult(FALSE, status, score))
          /\ UNCHANGED render
          /\ UNCHANGED <<cfg, food, rng, status, score>>

\* GameState::tick
Tick == TickDead \/ TickWall \/ TickCollide \/ TickEat \/ TickMove

Next ==
    \/ \E d \in Direction : QueueDirection(d)
    \/ Reset
    \/ Tick

Spec == Init /\ [][Next]_vars

\* ---------------------------------------------------------------- raster
\* Raster2D: width, height and the cells row by row; cells[i + 1] is the cell
\* of index i.  An Option is a sequence: <<>> for None, <<v>> for Some(v).
\* Panic stands for an index past the end of the cells.
Panic == [panic |-> TRUE]

\* Raster2D::new
raster_new(w, h) ==
    [width |-> w, height |-> h, cells |-> [i \in 1..(Max(w, 0) * Max(h, 0)) |-> FALSE]]

\* Raster2D::idx: None, or Some(y * width + x)
idx(r, x, y) ==
    IF x < 0 \/ y < 0 \/ x > r.width \/ y > r.height THEN <<>> ELSE <<y * r.width + x>>

\* Raster2D::set
raster_set(r, x, y, on) ==
    IF r = Panic THEN Panic
    ELSE IF idx(r, x, y) = <<>> THEN r
    ELSE IF idx(r, x, y)[1] >= Len(r.cells) THEN Panic
    ELSE [r EXCEPT !.cells[idx(r, x, y)[1] + 1] = on]

\* Raster2D::get: None, or Some(cell)
raster_get(r, x, y) ==
    IF idx(r, x, y) = <<>> THEN <<>>
    ELSE IF idx(r, x, y)[1] >= Len(r.cells) THEN Panic
    ELSE <<r.cells[idx(r, x, y)[1] + 1]>>

\* The loops of rasterize_game: set the cell of every point of a sequence
RECURSIVE draw_points(_, _)
draw_points(r, ps) ==
    IF ps = <<>> THEN r
    ELSE draw_points(raster_set(r, ps[1].x, ps[1].y, TRUE), Tail(ps))

\* The orders in which the points of a set can be iterated (HashSet::iter:
\* the order depends on the hasher's random state, so every order can occur)
RECURSIVE iter(_)
iter(ps) ==
    IF ps = {} THEN {<<>>}
    ELSE UNION {{<<p>> \o o : o \in iter(ps \ {p})} : p \in ps}

\* rasterize_game: the rasters it can return, one for each order of iteration
\* of the food set
rasterize_game(c, s, f) ==
    {draw_points(draw_points(raster_new(c.width, c.height), s), o) : o \in iter(f)}

\* One row of strmap: '8' for Some(true), '.' otherwise
strmap_row(r, y) ==
    [i \in 1..r.width |-> IF raster_get(r, i - 1, y) = <<TRUE>> THEN "8" ELSE "."]

\* join("\n") of the rows from y on
RECURSIVE join_rows(_, _)
join_rows(r, y) ==
    IF y >= r.height THEN <<>>
    ELSE IF y = r.height - 1 THEN strmap_row(r, y)
    ELSE strmap_row(r, y) \o <<"\n">> \o join_rows(r, y + 1)

\* Raster2D::strmap (render::raster_to_str is the same text): the characters
\* of the string
strmap(r) == join_rows(r, 0)

\* ---------------------------------------------------------------- braille
\* Bitwise or of two bytes
RECURSIVE bit_or(_, _)
bit_or(a, b) ==
    IF a = 0 THEN b
    ELSE IF b = 0 THEN a
    ELSE (IF a % 2 = 1 \/ b % 2 = 1 THEN 1 ELSE 0) + 2 * bit_or(a \div 2, b \div 2)

\* The table of render_braille with two entries exchanged: (3, 0) and (0, 1)
DotBitsExchanged(v, h) ==
    CASE v = 0 /\ h = 0 -> <<0, 1>>
      [] v = 1 /\ h = 0 -> <<0, 2>>
      [] v = 2 /\ h = 0 -> <<0, 4>>
      [] v = 3 /\ h = 0 -> <<0, 8>>
      [] v = 0 /\ h = 1 -> <<1, 0>>
      [] v = 1 /\ h = 1 -> <<0, 16>>
      [] v = 2 /\ h = 1 -> <<0, 32>>
      [] v = 3 /\ h = 1 -> <<2, 0>>

\* The table of render_braille: the bits or-ed into the second and the third
\* byte for (vert_placement, horiz_placement); no other pair has an entry
dot_bits(v, h) ==
    CASE v = 0 /\ h = 0 -> <<0, 1>>
      [] v = 1 /\ h = 0 -> <<0, 2>>
      [] v = 2 /\ h = 0 -> <<0, 4>>
      [] v = 3 /\ h = 0 -> <<1, 0>>
      [] v = 0 /\ h = 1 -> <<0, 8>>
      [] v = 1 /\ h = 1 -> <<0, 16>>
      [] v = 2 /\ h = 1 -> <<0, 32>>
      [] v = 3 /\ h = 1 -> <<2, 0>>

\* The lines of render_braille before the loops: height / 4 rows of width / 2
\* glyphs of bytes e2 a0 80
blank_lines(r) ==
    [row \in 1..(r.height \div 4) |-> [col \in 1..(r.width \div 2) |-> <<226, 160, 128>>]]

\* The body of the loops of render_braille for the cell k = h * width + w
pack_cell(r, lines, k) ==
    LET h == k \div r.width
        w == k % r.width
        bits == dot_bits(h % 4, w % 2)
        g == lines[(h \div 4) + 1][(w \div 2) + 1]
    IN IF raster_get(r, w, h) = <<TRUE>>
       THEN [lines EXCEPT ![(h \div 4) + 1][(w \div 2) + 1] =
                <<g[1], bit_or(g[2], bits[1]), bit_or(g[3], bits[2])>>]
       ELSE lines

\* The loops of render_braille over the cells lo .. hi - 1, row by row and
\* left to right: the first half of them, then the second
RECURSIVE pack_cells(_, _, _, _)
pack_cells(r, lines, lo, hi) ==
    IF hi <= lo THEN lines
    ELSE IF hi = lo + 1 THEN pack_cell(r, lines, lo)
    ELSE LET mid == (lo + hi) \div 2
             packed == pack_cells(r, lines, lo, mid)
         IN IF packed = lines
            THEN pack_cells(r, lines, mid, hi)
            ELSE pack_cells(r, packed, mid, hi)

\* line.into_iter().flatten(): the bytes of a line of glyphs
flatten(line) ==
    [i \in 1..(3 * Len(line)) |-> line[((i - 1) \div 3) + 1][((i - 1) % 3) + 1]]

\* b[i] is a continuation byte within lo..hi
cont_in(b, i, lo, hi) == i <= Len(b) /\ b[i] \in lo..hi

\* The length of the well formed UTF-8 character that begins at b[i], or 0
\* when there is none (overlong forms, surrogates and code points above
\* U+10FFFF are not well formed)
utf8_width(b, i) ==
    LET c == b[i]
        second(lo, hi) == cont_in(b, i + 1, lo, hi)
        third == cont_in(b, i + 2, 128, 191)
        fourth == cont_in(b, i + 3, 128, 191)
    IN IF c <= 127 THEN 1
       ELSE IF c \in 194..223 THEN (IF second(128, 191) THEN 2 ELSE 0)
       ELSE IF c = 224 THEN (IF second(160, 191) /\ third THEN 3 ELSE 0)
       ELSE IF c = 237 THEN (IF second(128, 159) /\ third THEN 3 ELSE 0)
       ELSE IF c \in 225..239 THEN (IF second(128, 191) /\ third THEN 3 ELSE 0)
       ELSE IF c = 240 THEN (IF second(144, 191) /\ third /\ fourth THEN 4 ELSE 0)
       ELSE IF c \in 241..243 THEN (IF second(128, 191) /\ third /\ fourth THEN 4 ELSE 0)
       ELSE IF c = 244 THEN (IF second(128, 143) /\ third /\ fourth THEN 4 ELSE 0)
       ELSE 0

\* The code point of the character of n bytes that begins at b[i]
utf8_char(b, i, n) ==
    CASE n = 1 -> b[i]
      [] n = 2 -> (b[i] - 192) * 64 + (b[i + 1] - 128)
      [] n = 3 -> (b[i] - 224) * 4096 + (b[i + 1] - 128) * 64 + (b[i + 2] - 128)
      [] n = 4 -> (b[i] - 240) * 262144 + (b[i + 1] - 128) * 4096
                  + (b[i + 2] - 128) * 64 + (b[i + 3] - 128)

\* std::str::from_utf8 on the bytes from b[i] on: whether they are well
\* formed
RECURSIVE utf8_valid_from(_, _)
utf8_valid_from(b, i) ==
    IF i > Len(b) THEN TRUE
    ELSE IF utf8_width(b, i) = 0 THEN FALSE
    ELSE utf8_valid_from(b, i + utf8_width(b, i))

\* std::str::from_utf8(b) is Ok
utf8_valid(b) == utf8_valid_from(b, 1)

\* The code points of well formed bytes from b[i] on
RECURSIVE utf8_decode_from(_, _)
utf8_decode_from(b, i) ==
    IF i > Len(b) THEN <<>>
    ELSE <<utf8_char(b, i, utf8_width(b, i))>>
         \o utf8_decode_from(b, i + utf8_width(b, i))

\* The characters of the string std::str::from_utf8(b) gives
utf8_decode(b) == utf8_decode_from(b, 1)

\* join("\n") of the decoded lines from row i on; 10 is the newline
RECURSIVE join_lines(_, _)
join_lines(lines, i) ==
    IF i > Len(lines) THEN <<>>
    ELSE IF i = Len(lines) THEN utf8_decode(flatten(lines[i]))
    ELSE utf8_decode(flatten(lines[i])) \o <<10>> \o join_lines(lines, i + 1)

\* render::render_braille
render_braille(r) ==
    IF r.width % 2 # 0 \/ r.height % 4 # 0
    THEN [state |-> "panic", text |-> <<>>]
    ELSE LET lines == pack_cells(r, blank_lines(r), 0, r.width * r.height)
         IN IF \A i \in 1..Len(lines) : utf8_valid(flatten(lines[i]))
            THEN [state |-> "ok", text |-> join_lines(lines, 1)]
            ELSE [state |-> "panic", text |-> <<>>]

\* The patterns of n cells: every pattern when n is small, else the uniform
\* patterns with the cells i and j flipped (0 flips none)
Patterns(n) ==
    IF n <= MaxFullCells
    THEN {[i \in 1..n |-> i \in t] : t \in SUBSET (1..n)}
    ELSE {[k \in 1..n |-> (k \in {i, j}) # base] :
             i \in 0..n, j \in 0..n, base \in BOOLEAN}

\* The rasters handed to render_braille
Rasters ==
    UNION {{[width |-> w, height |-> h, cells |-> c] : c \in Patterns(w * h)} :
             w \in 1..MaxRasterWidth, h \in 1..MaxRasterHeight}

\* The process renders while a game exists: here the game of the 1 x 1 board
\* as constructed, which no step of the renderer touches.
RenderInit ==
    /\ cfg = [width |-> 1, height |-> 1, wrap_edges |-> FALSE, initial_len |-> 1]
    /\ status = Running
    /\ score = 0
    /\ snake = initial_snake(cfg)
    /\ food = {}
    /\ dir = Right
    /\ pending_dir = None
    /\ rng = 2 * max_attempts(cfg)
    /\ last = Last("create", None, NoResult)
    /\ raster \in Rasters
    /\ braille = [state |-> "none", text |-> <<>>]
    /\ tick_rate = initial_tick_rate
    /\ frames = 0

\* A call of render_braille on the raster
Render ==
    /\ braille.state = "none"
    /\ braille' = render_braille(raster)
    /\ UNCHANGED <<game, last, raster, tick_rate, frames>>

RenderNext == Render

RenderSpec == RenderInit /\ [][RenderNext]_vars

\* ------------------------------------------------------------ run loop
\* The configuration run builds
RunConfig == [width |-> 100, height |-> 40, wrap_edges |-> TRUE, initial_len |-> 6]

\* The directions handle_key queues: k, j, h, l and the four arrows
RunKeys == {Up, Down, Left, Right}

\* The rows the head is followed in: MaxRunRows rows from the one the snake
\* starts in
RunRows == (RunConfig.height \div 2)..((RunConfig.height \div 2) + MaxRunRows - 1)

\* The cells the draws of spawn_food are taken from: MaxDrawColumns columns
\* spread over the width, in MaxDrawRows rows from the one the snake starts in
RunDraws ==
    {Point((i * RunConfig.width) \div MaxDrawColumns, (RunConfig.height \div 2) + j) :
        i \in 0..(MaxDrawColumns - 1), j \in 0..(MaxDrawRows - 1)}

\* The loop of spawn_food with n attempts left: a pair of draws that names a
\* free cell places the food, one that names an occupied cell is retried
RECURSIVE RunAttempts(_, _, _, _)
RunAttempts(s, f, r, n) ==
    IF n = 0 THEN {}
    ELSE {[food |-> f \cup {p}, rng |-> r + 2] : p \in RunDraws \ (SegSet(s) \cup f)}
         \cup (IF RunDraws \cap (SegSet(s) \cup f) # {}
               THEN RunAttempts(s, f, r + 2, n - 1)
               ELSE {})

\* spawn_food with draws from RunDraws that places the food within
\* MaxSpawnAttempts attempts
RunSpawnFood(s, f, r) == RunAttempts(s, f, r, MaxSpawnAttempts)

\* run up to the loop: the game is constructed and the interval is 70 ms
RunInit ==
    \E o \in RunSpawnFood(initial_snake(RunConfig), {}, 0) :
        /\ cfg = RunConfig
        /\ status = Running
        /\ score = 0
        /\ snake = initial_snake(RunConfig)
        /\ food = o.food
        /\ dir = Right
        /\ pending_dir = None
        /\ rng = o.rng
        /\ last = Last("create", None, NoResult)
        /\ raster = [width |-> 0, height |-> 0, cells |-> <<>>]
        /\ braille = [state |-> "none", text |-> <<>>]
        /\ tick_rate = initial_tick_rate
        /\ frames = 0

\* An iteration of the loop begins: the game was constructed or the frame of
\* the iteration before is done (frames past MaxFrames are not followed)
RunIterationStart ==
    /\ tick_rate.state = "ok"
    /\ \/ last.op \in {"create", "drawn"}
       \/ last.op = "tick_rate" /\ frames >= MaxFrames

\* The loop body, lines 70-78: a key is read at the start of an iteration and
\* handle_key queues its direction.  The r branch of handle_key resets a dead
\* game; with wrap_edges no tick of run sets Dead.
RunKey ==
    /\ RunIterationStart
    /\ \E d \in RunKeys : QueueDirection(d)

\* The loop body, lines 80-84: at most one tick in an iteration, when the
\* interval has elapsed
RunCanTick == RunIterationStart \/ (tick_rate.state = "ok" /\ last.op = "queue_direction")

\* game.tick() when the head moves without eating, to a row of RunRows
RunTickMove ==
    /\ RunCanTick
    /\ candidate(cfg, snake, commit_direction(dir, pending_dir)).y \in RunRows
    /\ TickMove

\* game.tick() when the head moves onto food (TickEat with the draws of
\* RunSpawnFood), to a row of RunRows
RunTickEat ==
    /\ RunCanTick
    /\ score < MaxScore
    /\ status # Dead
    /\ LET d == commit_direction(dir, pending_dir)
           next_head == candidate(cfg, snake, d)
           is_eating == next_head \in food
       IN /\ next_head.y \in RunRows
          /\ ~(~cfg.wrap_edges /\ out_of_bounds(cfg, next_head_position(snake, d)))
          /\ ~collides_with_body(snake, next_head, ~is_eating)
          /\ is_eating
          /\ \E o \in RunSpawnFood(push_front(snake, next_head),
                                   food \ {next_head}, rng) :
                /\ food' = o.food
                /\ rng' = o.rng
          /\ dir' = d
          /\ pending_dir' = None
          /\ snake' = push_front(snake, next_head)
          /\ score' = score + 1
          /\ last' = Last("tick", pending_dir, TickResult(TRUE, status, score + 1))
          /\ UNCHANGED render
          /\ UNCHANGED <<cfg, status>>

\* The loop body, line 86: the interval is computed from the score.  A panic
\* of the subtraction ends the process.
RunRate ==
    /\ RunIterationStart \/ (tick_rate.state = "ok" /\ last.op \in {"queue_direction", "tick"})
    /\ \E o \in u64_sub(u64(INIT_TICK_MILLIS), u64(score)) :
          tick_rate' = IF o.state = "panic"
                       THEN [state |-> "panic", millis |-> tick_rate.millis]
                       ELSE [state |-> "ok", millis |-> u64_max(o.value, u64(1))]
    /\ last' = Last("tick_rate", None, NoResult)
    /\ UNCHANGED <<game, raster, braille, frames>>

\* The loop body, lines 103-104, inside terminal.draw: the raster of the game
\* and its braille text are built
RunFrame ==
    /\ tick_rate.state = "ok"
    /\ last.op = "tick_rate"
    /\ frames < MaxFrames
    /\ \E r \in rasterize_game(cfg, snake, food) :
          /\ raster' = r
          /\ braille' = IF r = Panic THEN [state |-> "panic", text |-> <<>>]
                        ELSE render_braille(r)
    /\ frames' = frames + 1
    /\ last' = Last("frame", None, NoResult)
    /\ UNCHANGED <<game, tick_rate>>

\* The loop body, lines 105-131: the widgets are drawn and the closure
\* returns, which drops the raster and the text.  A panic of line 103 or 104
\* ends the process.
RunDrawn ==
    /\ last.op = "frame"
    /\ braille.state = "ok"
    /\ raster' = [width |-> 0, height |-> 0, cells |-> <<>>]
    /\ braille' = [state |-> "none", text |-> <<>>]
    /\ last' = Last("drawn", None, NoResult)
    /\ UNCHANGED <<game, tick_rate, frames>>

\* One part of the loop body at a time, in the order of the code (last.op is
\* the part done last).  With the head kept to one row the snake is a
\* straight run shorter than the row, so the dead, wall and collision
\* branches of tick are not taken.
RunNext == RunKey \/ RunTickMove \/ RunTickEat \/ RunRate \/ RunFrame \/ RunDrawn

RunSpec == RunInit /\ [][RunNext]_vars

\* ---------------------------------------------------------------- properties
\* The statements below restate the board geometry on their own, so that they
\* do not follow from the helpers of the model.

\* The cell one unit from p in direction d
StepFrom(p, d) ==
    Point(p.x + (IF d = Right THEN 1 ELSE IF d = Left THEN -1 ELSE 0),
          p.y + (IF d = Down THEN 1 ELSE IF d = Up THEN -1 ELSE 0))

\* p lies within [0,width) x [0,height)
InBoard(p) == p.x \in 0..(cfg.width - 1) /\ p.y \in 0..(cfg.height - 1)

\* The cell on the opposite edge for a cell one unit outside the board
OppositeEdge(p) ==
    Point(IF p.x = -1 THEN cfg.width - 1 ELSE IF p.x = cfg.width THEN 0 ELSE p.x,
          IF p.y = -1 THEN cfg.height - 1 ELSE IF p.y = cfg.height THEN 0 ELSE p.y)

OppositeOf(d) ==
    CASE d = Up -> Down [] d = Down -> Up [] d = Left -> Right [] d = Right -> Left

\* The candidate head of a step that commits direction d from snake s
CandidateHead(s, d) ==
    IF cfg.wrap_edges THEN OppositeEdge(StepFrom(s[1], d)) ELSE StepFrom(s[1], d)

\* p is a segment of s other than the last one
OnBodyBeforeTail(s, p) == \E i \in 1..(Len(s) - 1) : s[i] = p

\* The step being taken is a tick of a running game
RunningTick == last'.op = "tick" /\ status = Running

\* Every segment of the snake lies within the board
SnakeInBoard == \A i \in 1..Len(snake) : InBoard(snake[i])

\* C1: on a board that does not wrap, a step of a running game whose candidate
\* head (head plus the unit vector of the direction committed by the step) is
\* outside the board sets status to Dead, returns ate_food = false with status
\* Dead, and leaves snake, food and score as they were.
C1_WallDeath ==
    [][(RunningTick /\ ~cfg.wrap_edges /\ ~InBoard(StepFrom(snake[1], dir')))
        => /\ status' = Dead
           /\ last'.res = [ate_food |-> FALSE, status |-> Dead, score |-> score]
           /\ snake' = snake /\ food' = food /\ score' = score]_vars

\* C1 witness: a tick has just killed a snake of two or more segments whose
\* head faces the wall, with food on the board.
C1_Witness ==
    /\ last.op = "tick" /\ status = Dead /\ last.res.status = Dead
    /\ last.taken # None
    /\ ~cfg.wrap_edges /\ ~InBoard(StepFrom(snake[1], dir))
    /\ Len(snake) >= 2 /\ food # {}

\* C2: Dead is terminal.  From a Dead state a tick changes no field of the game
\* and returns ate_food = false, status Dead and the current score; and only
\* reset leaves Dead.
C2_DeadTerminal ==
    [][status = Dead
        => /\ (last'.op = "tick"
                => /\ UNCHANGED game
                   /\ last'.res = [ate_food |-> FALSE, status |-> Dead, score |-> score])
           /\ (last'.op # "reset" => status' = Dead)]_vars

\* C2 witness: a tick was taken on a dead game that had a direction queued.
C2_Witness ==
    /\ status = Dead /\ last.op = "tick" /\ last.res.status = Dead
    /\ pending_dir # None /\ score >= 1

\* C3: a step of a running game with the opposite of the committed direction
\* queued leaves the committed direction as it was, and no step turns the
\* committed direction into its opposite.
C3_NoReversal ==
    [][last'.op = "tick"
        => /\ (status = Running /\ pending_dir = OppositeOf(dir) => dir' = dir)
           /\ dir' # OppositeOf(dir)]_vars

\* C3 witness: a tick of a running game took a queued direction that is the
\* opposite of the committed one, for a committed direction other than Right.
C3_Witness ==
    /\ last.op = "tick" /\ last.res.status = Running
    /\ last.taken = OppositeOf(dir) /\ dir = Up

\* C4: a step of a running game that reports ate_food = true adds exactly 1 to
\* the score and to the snake length and puts the head on a cell that held
\* food; a step that reports ate_food = false keeps both.
C4_EatGrows ==
    [][RunningTick
        => /\ last'.res.score = score'
           /\ IF last'.res.ate_food
              THEN /\ score' = score + 1
                   /\ Len(snake') = Len(snake) + 1
                   /\ snake'[1] \in food
                   /\ snake'[1] = CandidateHead(snake, dir')
              ELSE /\ score' = score
                   /\ Len(snake') = Len(snake)]_vars

\* C4 witness: the last tick ate, for the second time at least.
C4_Witness ==
    /\ last.op = "tick" /\ last.res.ate_food /\ score >= 2 /\ Len(snake) >= 3

\* C5 as stated: on a wrapping board, a step whose candidate head leaves the
\* board ends with the head on the opposite edge and status Running.  It is
\* stated for snakes that lie within the board, where it already fails.
C5_WrapAlways ==
    [][(/\ RunningTick /\ cfg.wrap_edges /\ SnakeInBoard
        /\ ~InBoard(StepFrom(snake[1], dir')))
        => /\ status' = Running
           /\ snake'[1] = OppositeEdge(StepFrom(snake[1], dir'))]_vars

\* C5 as amended: on a wrapping board, a step whose candidate head leaves the
\* board ends with status Running and with the head on the opposite edge,
\* unless the cell on the opposite edge is a segment of the snake other than
\* its tail: then the step is rejected and the snake stays as it was.
C5_WrapUnlessBlocked ==
    [][(RunningTick /\ cfg.wrap_edges /\ ~InBoard(StepFrom(snake[1], dir')))
        => /\ status' = Running
           /\ IF OnBodyBeforeTail(snake, OppositeEdge(StepFrom(snake[1], dir')))
              THEN snake' = snake
              ELSE snake'[1] = OppositeEdge(StepFrom(snake[1], dir'))]_vars

\* C5 witness: the last tick took the head across the right edge to column 0,
\* the neck still being on the last column.
C5_Witness ==
    /\ last.op = "tick" /\ cfg.wrap_edges /\ cfg.width >= 2 /\ status = Running
    /\ dir = Right /\ Len(snake) >= 2
    /\ snake[1].x = 0 /\ snake[2].x = cfg.width - 1 /\ snake[2].y = snake[1].y

\* C6: a step of a running game whose candidate head is not food and is a
\* segment of the snake other than its tail changes nothing of the snake:
\* status stays Running, snake, score and food are unchanged, and the result
\* reports ate_food = false.
C6_SelfCollisionNoOp ==
    [][(/\ RunningTick
        /\ CandidateHead(snake, dir') \notin food
        /\ OnBodyBeforeTail(snake, CandidateHead(snake, dir')))
        => /\ status' = Running
           /\ snake' = snake /\ score' = score /\ food' = food
           /\ last'.res = [ate_food |-> FALSE, status |-> Running, score |-> score]]_vars

\* C6 witness: on a board that does not wrap, the last tick was rejected: the
\* cell ahead of the head is a segment other than the tail.
C6_Witness ==
    /\ last.op = "tick" /\ status = Running /\ ~cfg.wrap_edges
    /\ last.res = [ate_food |-> FALSE, status |-> Running, score |-> score]
    /\ CandidateHead(snake, dir) \notin food
    /\ OnBodyBeforeTail(snake, CandidateHead(snake, dir))

\* C7: a step rejected for self-collision leaves the committed direction as it
\* was before the step.  It is stated for snakes that lie within the board,
\* where it already fails.
C7_RejectedKeepsDirection ==
    [][(/\ RunningTick /\ SnakeInBoard
        /\ CandidateHead(snake, dir') \notin food
        /\ OnBodyBeforeTail(snake, CandidateHead(snake, dir'))
        /\ snake' = snake)
        => dir' = dir]_vars

\* C8: the food set is disjoint from the snake's segments.
C8_FoodOffSnake == food \cap SegSet(snake) = {}

\* C8 witness: after a tick that ate, food is on the board beside a snake of
\* three or more segments.
C8_Witness ==
    /\ last.op = "tick" /\ last.res.ate_food /\ food # {} /\ Len(snake) >= 3

\* C9: while Running, every segment of the snake lies within the board.
C9_SegmentsInBoard == status = Running => SnakeInBoard

\* C10: the segments of the snake are pairwise distinct.
C10_SegmentsDistinct ==
    \A i, j \in 1..Len(snake) : i # j => snake[i] # snake[j]

\* C10 witness: after a tick that did not eat, a snake of four or more
\* segments on a board that does not wrap has its head beside its tail.
C10_Witness ==
    /\ last.op = "tick" /\ ~last.res.ate_food /\ status = Running
    /\ ~cfg.wrap_edges /\ Len(snake) >= 4
    /\ \E d \in Direction : StepFrom(snake[1], d) = snake[Len(snake)]

\* C11: the pending direction is a one-slot buffer.  queue_direction stores the
\* direction it is given whatever was queued before and changes nothing else;
\* a tick of a running game decides the committed direction from the slot as it
\* stands (the last direction queued) and leaves the slot empty; a tick that
\* finds the slot empty keeps the committed direction.
C11_OneSlot ==
    [][/\ (last'.op = "queue_direction"
            => /\ pending_dir' = last'.taken /\ last'.taken \in Direction
               /\ UNCHANGED <<cfg, snake, dir, food, rng, status, score>>)
       /\ (RunningTick
            => /\ pending_dir' = None
               /\ last'.taken = pending_dir
               /\ dir' = IF pending_dir \in Direction \ {OppositeOf(dir)}
                         THEN pending_dir ELSE dir)]_vars

\* C11 witness: a tick of a running game found the slot empty and kept a
\* committed direction that an earlier tick had taken from the slot.
C11_Witness ==
    /\ last.op = "tick" /\ last.res.status = Running /\ last.taken = None
    /\ pending_dir = None /\ dir = Down

\* C12: reset, from any state, yields the layout of construction: status
\* Running, score 0, committed direction Right, empty pending slot, a snake of
\* max(initial_len, 1) segments at (width/2 - i, height/2) head first, a food
\* set holding nothing but what reset spawned (at most one point, on a free
\* cell of the board), and the configuration it had.
C12_ResetLayout ==
    [][last'.op = "reset"
        => /\ status' = Running /\ score' = 0 /\ dir' = Right /\ pending_dir' = None
           /\ cfg' = cfg
           /\ Len(snake') = (IF cfg.initial_len >= 1 THEN cfg.initial_len ELSE 1)
           /\ \A i \in 1..Len(snake') :
                 snake'[i] = Point(cfg.width \div 2 - (i - 1), cfg.height \div 2)
           /\ Cardinality(food') <= 1
           /\ \A p \in food' :
                 /\ p.x \in 0..(cfg.width - 1) /\ p.y \in 0..(cfg.height - 1)
                 /\ \A i \in 1..Len(snake') : snake'[i] # p]_vars

\* C12 witness: a reset has just been applied, with the generator further on
\* than construction can leave it, and it placed food beside a snake of two
\* segments.
C12_Witness ==
    /\ last.op = "reset" /\ rng = MaxDraws /\ food # {}
    /\ status = Running /\ score = 0 /\ Len(snake) = 2

\* The cells of the board
BoardCells == {Point(px, py) : px \in 0..(cfg.width - 1), py \in 0..(cfg.height - 1)}

\* C13: after a step that reports ate_food = true the eaten coordinate (the new
\* head) is not in the food set, and unless every cell of the board is occupied
\* by the snake or by food the food set holds a new coordinate that is on no
\* segment of the snake.  It is stated for snakes that lie within the board,
\* where it already fails.
C13_RespawnUnlessFull ==
    [][(RunningTick /\ SnakeInBoard /\ last'.res.ate_food)
        => /\ snake'[1] \notin food'
           /\ (BoardCells \subseteq (SegSet(snake') \cup (food \ {snake'[1]})))
              \/ (\E p \in food' : p \notin food \ {snake'[1]} /\ p \notin SegSet(snake'))]_vars

\* C14: the generator is advanced by reset and by a step that eats, and by
\* nothing else: queue_direction and every step that reports ate_food = false
\* (on a dead game, into the wall, rejected, or moving) leave it as it was.
C14_RngOnlyForFood ==
    [][/\ (rng' # rng
            => \/ last'.op = "reset"
               \/ (RunningTick /\ last'.res.ate_food))
       /\ ((last'.op = "reset" \/ (last'.op = "tick" /\ last'.res.ate_food))
            => rng' > rng)]_vars

\* C14 witness: a running snake that had eaten before has just moved without
\* eating, on a board without food.
C14_Witness ==
    /\ last.op = "tick" /\ last.res = [ate_food |-> FALSE, status |-> Running, score |-> score]
    /\ score >= 1 /\ food = {} /\ rng = MaxDraws
    /\ ~OnBodyBeforeTail(snake, CandidateHead(snake, dir))

\* The runs of a text between occurrences of the separator
RECURSIVE SplitOn(_, _)
SplitOn(t, sep) ==
    IF \A i \in 1..Len(t) : t[i] # sep THEN <<t>>
    ELSE LET n == CHOOSE i \in 1..Len(t) :
                     t[i] = sep /\ \A j \in 1..(i - 1) : t[j] # sep
         IN <<SubSeq(t, 1, n - 1)>> \o SplitOn(SubSeq(t, n + 1, Len(t)), sep)

\* The lines of an ASCII text
Lines(t) == SplitOn(t, "\n")

\* The text is height lines of width characters, each '8' or '.', with at least n '8'
AsciiShape(t, n) ==
    /\ Len(Lines(t)) = cfg.height
    /\ \A k \in 1..Len(Lines(t)) :
          /\ Len(Lines(t)[k]) = cfg.width
          /\ \A i \in 1..Len(Lines(t)[k]) : Lines(t)[k][i] \in {"8", "."}
    /\ Cardinality({i \in 1..Len(t) : t[i] = "8"}) >= n

\* C15: the ASCII rendering of rasterize(state) has exactly height lines of
\* exactly width characters, each '8' or '.', and at least as many '8' as the
\* snake has segments.
C15_AsciiOfState ==
    \A r \in rasterize_game(cfg, snake, food) :
        r # Panic /\ AsciiShape(strmap(r), Len(snake))

\* C15 for snakes that lie within the board (not a claim of its own: the case
\* in which the statement of C15 holds)
AsciiOfStateInBoard == SnakeInBoard => C15_AsciiOfState

\* The code point of the glyph with no dot, U+2800
BlankGlyph == 10240

\* The dot bit of sub-position (row r, column c) of a glyph: rows 0..3 of the
\* left column are bits 0, 1, 2, 6 and of the right column bits 3, 4, 5, 7
DotBit(r, c) == IF c = 0 THEN <<0, 1, 2, 6>>[r + 1] ELSE <<3, 4, 5, 7>>[r + 1]

\* Bit b of n is set
BitSet(n, b) == (n \div (2 ^ b)) % 2 = 1

\* The rows of glyphs of a braille text (10 is the newline)
GlyphRows(t) == SplitOn(t, 10)

\* C16: for a raster of width divisible by 2 and height divisible by 4,
\* render_braille returns height / 4 rows of width / 2 glyphs, and the glyph of
\* block (R, C) has the dot bit of sub-position (r, c) set exactly when the cell
\* (x = 2C + c, y = 4R + r) is on, and no other bit.
C16_GlyphPacking ==
    (braille.state # "none" /\ raster.width % 2 = 0 /\ raster.height % 4 = 0)
    => /\ braille.state = "ok"
       /\ Len(GlyphRows(braille.text)) = raster.height \div 4
       /\ \A R \in 0..(raster.height \div 4 - 1) :
             LET row == GlyphRows(braille.text)[R + 1]
             IN /\ Len(row) = raster.width \div 2
                /\ \A C \in 0..(raster.width \div 2 - 1) :
                      /\ row[C + 1] - BlankGlyph \in 0..255
                      /\ \A r \in 0..3, c \in 0..1 :
                            BitSet(row[C + 1] - BlankGlyph, DotBit(r, c))
                            <=> raster.cells[(4 * R + r) * raster.width + 2 * C + c + 1]

\* C16 witness: a raster of 2 by 8 with the cells (0, 0) and (1, 7) on has
\* been packed into two rows of one glyph: bit 0 alone, a newline, bit 7 alone.
C16_Witness ==
    /\ braille.state = "ok" /\ raster.width = 2 /\ raster.height = 8
    /\ raster.cells = [i \in 1..16 |-> i \in {1, 16}]
    /\ braille.text = <<BlankGlyph + 1, 10, BlankGlyph + 128>>

\* C16, the two cases it names: a 2 by 4 raster with only (0, 0) on gives one
\* glyph with bit 0 alone, an all-false one the blank glyph (part of the check
\* of C16, under RenderSpec)
C16_NamedCases ==
    (braille.state # "none" /\ raster.width = 2 /\ raster.height = 4)
    => /\ (raster.cells = [i \in 1..8 |-> i = 1] => braille.text = <<BlankGlyph + 1>>)
       /\ (raster.cells = [i \in 1..8 |-> FALSE] => braille.text = <<BlankGlyph>>)

\* C17: a step of a running game whose candidate head is not food and is the
\* cell of the tail segment and of no other segment is not a collision: the
\* head moves onto that cell, the tail is popped, the length is the same,
\* status stays Running and the result reports ate_food = false.
C17_TailFollowing ==
    [][(/\ RunningTick
        /\ CandidateHead(snake, dir') \notin food
        /\ CandidateHead(snake, dir') = snake[Len(snake)]
        /\ ~OnBodyBeforeTail(snake, CandidateHead(snake, dir')))
        => /\ snake' = <<snake[Len(snake)]>> \o SubSeq(snake, 1, Len(snake) - 1)
           /\ Len(snake') = Len(snake)
           /\ status' = Running
           /\ last'.res = [ate_food |-> FALSE, status |-> Running, score |-> score]]_vars

\* C17 witness: on the wrapping board of 2 by 1 the snake of two segments
\* fills the ring, so the cell ahead of the head in a horizontal direction is
\* the tail's.  The last tick committed a horizontal direction, and the head
\* is where the tail of the initial snake was.
C17_Witness ==
    /\ cfg.wrap_edges /\ cfg.width = 2 /\ cfg.height = 1 /\ cfg.initial_len = 2
    /\ last.op = "tick" /\ status = Running /\ dir \in {Left, Right}
    /\ last.res = [ate_food |-> FALSE, status |-> Running, score |-> score]
    /\ snake = <<Point(0, 0), Point(1, 0)>>

\* A snake of four segments can follow its tail around a square of the board
\* of 3 by 2: the head is about to step down onto the tail's cell
C17_LoopReached ==
    /\ cfg.width = 3 /\ cfg.height = 2 /\ status = Running /\ pending_dir = Down
    /\ snake = <<Point(0, 0), Point(1, 0), Point(1, 1), Point(0, 1)>>

\* C18: on a board whose edges wrap, status is Running in every reachable
\* state, whatever queue_direction, tick and reset calls were made.
C18_WrapNeverDead == cfg.wrap_edges => status = Running

\* C18 witness: on a wrapping board of width 3 the last tick took the head
\* across the left or right edge (head and neck are on opposite edges) and the
\* game is running.
C18_Witness ==
    /\ cfg.wrap_edges /\ cfg.width = 3 /\ last.op = "tick" /\ status = Running
    /\ Len(snake) >= 2
    /\ {snake[1].x, snake[2].x} = {0, 2}

\* On a wrapping board a tick has been rejected for self-collision and the
\* game is running: the cell ahead is a segment other than the tail
C18_RejectedReached ==
    /\ cfg.wrap_edges /\ last.op = "tick" /\ status = Running /\ SnakeInBoard
    /\ OnBodyBeforeTail(snake, CandidateHead(snake, dir))

\* The direction a step commits: the queued one unless there is none or it is
\* the opposite of the committed one
CommittedBy(d, queued) ==
    IF queued # None /\ queued # OppositeOf(d) THEN queued ELSE d

\* The cell ahead in direction d fails the collision test: it is not food and
\* is a segment other than the tail
BlockedIn(d) ==
    /\ CandidateHead(snake, d) \notin food
    /\ OnBodyBeforeTail(snake, CandidateHead(snake, d))

\* The snake is stuck: the game is running, nothing is queued and the cell
\* ahead in the committed direction fails the collision test
Stuck == status = Running /\ pending_dir = None /\ BlockedIn(dir)

\* C19: a step rejected for self-collision leaves the snake stuck; a step of a
\* stuck snake is rejected again and leaves snake, food, score, direction and
\* status as they were, the snake still stuck; and a step that moves a snake
\* whose cell ahead is blocked has taken a queued direction whose cell passes
\* the collision test.
C19_StuckUntilQueued ==
    [][RunningTick
        => /\ (BlockedIn(CommittedBy(dir, pending_dir)) => Stuck')
           /\ (Stuck => /\ snake' = snake /\ food' = food /\ score' = score
                        /\ dir' = dir /\ status' = Running
                        /\ last'.res = [ate_food |-> FALSE, status |-> Running,
                                        score |-> score]
                        /\ Stuck')
           /\ (BlockedIn(dir) /\ snake' # snake
                 => /\ pending_dir # None /\ dir' = pending_dir
                    /\ ~BlockedIn(pending_dir))]_vars

\* C19 witness: the last tick was rejected and the snake is stuck.  A tick that
\* moves puts the head one step from the neck in the direction it committed;
\* here the head is elsewhere, so the tick that committed dir did not move.
C19_Witness ==
    /\ last.op = "tick" /\ Stuck /\ SnakeInBoard /\ Len(snake) >= 2
    /\ CandidateHead(<<snake[2]>>, dir) # snake[1]

\* C20: the food set holds at most one point in every reachable state; a step
\* of the program adds a point to it only if it is a reset or a tick that
\* reports ate_food = true; and once the food set is empty, every step other
\* than a reset leaves it empty and leaves the score as it was.
C20_FoodOnlyBySpawn ==
    /\ [](Cardinality(food) <= 1)
    /\ [][/\ (food' \ food # {}
               => \/ last'.op = "reset"
                  \/ last'.op = "tick" /\ last'.res.ate_food)
          /\ (food = {} /\ last'.op # "reset"
               => food' = {} /\ score' = score)]_vars

\* C20 witness: the respawn after the last meal failed although a cell of the
\* board is free, and a later tick, which ate nothing, has left the food set
\* empty.
C20_Witness ==
    /\ food = {} /\ score >= 1 /\ status = Running /\ SnakeInBoard
    /\ BoardCells \ SegSet(snake) # {}
    /\ last.op = "tick"
    /\ last.res = [ate_food |-> FALSE, status |-> Running, score |-> score]

\* The interval is v milliseconds
IsMillis(t, v) == t = <<0, 0, 0, v>>

\* C21: on the board of the run loop the tick interval is max(70 - score, 1)
\* milliseconds after each computation of it, the computation does not panic,
\* the interval is always between 1 and 70 ms, and it never grows (the score
\* only grows there).
C21_TickInterval ==
    /\ [](/\ tick_rate.state = "ok"
          /\ \E v \in 1..70 : IsMillis(tick_rate.millis, v))
    /\ [](last.op = "tick_rate"
           => IsMillis(tick_rate.millis, IF 70 - score > 1 THEN 70 - score ELSE 1))
    /\ [][\A v \in 1..70 : IsMillis(tick_rate.millis, v)
            => \E w \in 1..v : IsMillis(tick_rate'.millis, w)]_vars

\* Up to a score of 70 the interval is as C21 says: 70 - score clamped to 1
TickIntervalUpTo70 ==
    (score <= 70)
    => /\ tick_rate.state = "ok"
       /\ \E v \in 1..70 : IsMillis(tick_rate.millis, v)
       /\ (last.op = "tick_rate"
            => IsMillis(tick_rate.millis, IF 70 - score > 1 THEN 70 - score ELSE 1))

\* The interval computed at a score of 71 by a build that wraps: 2^64 - 1 ms
TickIntervalWrapped ==
    /\ score = 71 /\ last.op = "tick_rate" /\ tick_rate.state = "ok"
    /\ tick_rate.millis = <<65535, 65535, 65535, 65535>>

\* The computation at a score of 71 by a build that checks overflow: a panic
TickIntervalPanicked == score = 71 /\ tick_rate.state = "panic"

====
